---------------------------- MODULE Spec2Model ----------------------------
(***************************************************************************)
(* A model of argoos' main package (src/main.go): the shared-secret check  *)
(* of the /event endpoint, the two HTTP handlers, the start-up sequence of *)
(* main and the interrupt handler goroutine sig.  The apiutils package     *)
(* (Config, StartRollout, StopRollout, GetEvents, ImpactedDeployments) is  *)
(* called by main.go but is not part of the sources at hand: it is         *)
(* modelled from the design document and marked so.                        *)
(*                                                                         *)
(* Strings that the code inspects character by character (the token, the   *)
(* X-Argoos-Token header) are sequences of one-character strings.          *)
(***************************************************************************)
EXTENDS Integers, Sequences, FiniteSets, TLC

\* ------------------------------------------------------------------ bounds
\* Longest token / header value drawn in SpecAuth.
MaxLen == 2
\* Most event records in one notification body.
MaxEvents == 2
\* Most requests the server accepts in one behaviour.
MaxRequests == 2
\* Most interrupt signals the environment raises in one behaviour.
MaxInterrupts == 2

\* ----------------------------------------------------------------- strings
\* The alphabet of the modelled strings: two letters that differ only in
\* case, and white space.
Chars == {"a", "A", " "}

\* All strings over Chars of length at most n.
StrsUpTo(n) == UNION {[1..k -> Chars] : k \in 0..n}

\* unicode.IsSpace restricted to the alphabet.
IsSpace(c) == c = " "

RECURSIVE TrimLeft(_)
\* s with its leading white space removed.
TrimLeft(s) ==
    IF s = <<>> THEN <<>>
    ELSE IF IsSpace(Head(s)) THEN TrimLeft(Tail(s)) ELSE s

RECURSIVE TrimRight(_)
\* s with its trailing white space removed.
TrimRight(s) ==
    IF s = <<>> THEN <<>>
    ELSE IF IsSpace(s[Len(s)]) THEN TrimRight(SubSeq(s, 1, Len(s) - 1)) ELSE s

\* strings.TrimSpace.
TrimSpace(s) == TrimRight(TrimLeft(s))

\* http.Header.Get: the first value of the header, "" when it is absent.
\* A header is the list of its values.
HeaderGet(values) == IF values = <<>> THEN <<>> ELSE Head(values)

\* The headers a request may carry for one key: absent, or one value.
HeadersOver(S) == {<<>>} \cup {<<v>> : v \in S}


\* ------------------------------------------------------------ configuration
\* The value of the global TOKEN once flag.Parse has returned.  env is the
\* TOKEN environment variable ("" when unset), flag the values given to
\* -token (none when the flag is not on the command line).  The variable
\* starts as the empty string; a non-empty environment value is trimmed;
\* the flag, whose default is the value so far, overrides it as given.
ConfigToken(env, flag) ==
    LET fromEnv == IF Len(env) > 0 THEN TrimSpace(env) ELSE <<>>
    IN  IF flag = <<>> THEN fromEnv ELSE Head(flag)

\* ------------------------------------------------- apiutils (from the design)
\* The workloads of the cluster and the image references of each, as the
\* controller's snapshot holds them.
Workloads == {"ns/app", "ns/web"}

Snapshot ==
    [w \in Workloads |->
        IF w = "ns/app" THEN {[repository |-> "app", tag |-> "v2"]}
        ELSE {[repository |-> "web", tag |-> "v1"]}]

\* The event records a notification envelope may hold.
Records ==
    { [action |-> "push", repository |-> "app",   tag |-> "v2"],
      [action |-> "push", repository |-> "other", tag |-> "v2"],
      [action |-> "pull", repository |-> "app",   tag |-> "v2"] }

\* A request body: a decodable envelope of records, or anything else.
Malformed == [envelope |-> FALSE, records |-> <<>>]

Envelope(recs) == [envelope |-> TRUE, records |-> recs]

BodiesUpTo(n) ==
    {Malformed} \cup {Envelope(rs) : rs \in UNION {[1..k -> Records] : k \in 0..n}}

RECURSIVE PushEvents(_, _)
\* The push events of a list of records, in order: only push and create
\* records yield one; the registry override replaces the declared origin.
PushEvents(recs, registry) ==
    IF recs = <<>> THEN <<>>
    ELSE LET r == Head(recs)
             rest == PushEvents(Tail(recs), registry)
         IN  IF r.action \in {"push", "create"}
             THEN <<[registry   |-> IF registry = "" THEN "origin" ELSE registry,
                     repository |-> r.repository,
                     tag        |-> r.tag]>> \o rest
             ELSE rest

\* apiutils.GetEvents: a malformed envelope fails the whole batch and yields
\* no event.
GetEvents(c, registry) ==
    IF c.envelope THEN PushEvents(c.records, registry) ELSE <<>>

\* The impact resolver: the workloads that reference the pushed image.
Resolve(e) ==
    {w \in Workloads :
        \E ref \in Snapshot[w] : ref.repository = e.repository /\ ref.tag = e.tag}

\* The controller's lifecycle, Stopped -> Starting -> Running -> Stopping ->
\* Stopped, as start() and stop() drive it: the state when StartRollout is
\* called and when it returns, when StopRollout is called and when it returns.
StartRolloutCalled(c) == "Starting"

StartRolloutReturned(c) == IF c = "Starting" THEN "Running" ELSE c

StopRolloutCalled(c) == "Stopping"

StopRolloutReturned(c) == IF c = "Stopping" THEN "Stopped" ELSE c

\* -------------------------------------------------------------------- state
\* The handler goroutines of the HTTP server.
Handlers == {1, 2}

VARIABLES
    envTOKEN,    \* the TOKEN environment variable ("" when unset)
    flagToken,   \* the values given to -token
    TOKEN,       \* the global TOKEN
    mainpc,      \* where the main goroutine is
    sigpc,       \* where the sig goroutine is
    interrupts,  \* interrupt signals raised so far
    exit,        \* how the process ended: "none" while it runs
    ctl,         \* the rollout controller's lifecycle state
    stopCalls,   \* calls of apiutils.StopRollout so far
    patching,    \* per workload, the patch calls in flight
    patchCalls,  \* per workload, the patch calls the cluster has seen
    coalesced,   \* the workloads for which a trigger met one in flight
    served,      \* requests accepted so far
    hpc,         \* per handler, where it is
    req,         \* per handler, its request
    bodyRead,    \* per handler, whether ioutil.ReadAll has run
    events,      \* per handler, the result of GetEvents
    idx,         \* per handler, the position of the range loop
    dispatched,  \* per handler, the events given to ImpactedDeployments
    failed,      \* per handler, the positions whose resolution or trigger failed
    resp         \* per handler, the response written

vars ==
    <<envTOKEN, flagToken, TOKEN, mainpc, sigpc, interrupts, exit, ctl,
      stopCalls, patching, patchCalls, coalesced, served, hpc, req, bodyRead,
      events, idx, dispatched, failed, resp>>

procVars == <<mainpc, sigpc, interrupts, exit>>
cfgVars == <<envTOKEN, flagToken, TOKEN>>
ctlVars == <<ctl, stopCalls, patching, patchCalls, coalesced>>
reqVars == <<served, hpc, req, bodyRead, events, idx, dispatched, failed, resp>>

NoRequest == [route |-> "", token |-> <<>>, registry |-> "", body |-> Malformed]
NoResponse == [status |-> 0, body |-> ""]

\* ------------------------------------------------------------ authentication
BadTokenError == "Bad Token"
Nil == "nil"

\* checkToken without the early return for an unset TOKEN.
checkTokenAlways(r) ==
    LET token == TrimSpace(HeaderGet(r.token))
    IN  IF Len(token) < 1 THEN BadTokenError
        ELSE IF token # TOKEN THEN BadTokenError
        ELSE Nil

\* checkToken: nil, or the BadTokenError.
checkToken(r) ==
    IF TOKEN = <<>> THEN Nil
    ELSE LET token == TrimSpace(HeaderGet(r.token))
         IN  IF Len(token) < 1 THEN BadTokenError
             ELSE IF token # TOKEN THEN BadTokenError
             ELSE Nil

\* --------------------------------------------------------------------- init
\* The state when flag.Parse has returned and -version was not asked: TOKEN
\* is configured, no goroutine but main runs, the controller is stopped.
InitWith(Envs, Flags) ==
    /\ envTOKEN \in Envs
    /\ flagToken \in Flags
    /\ TOKEN = ConfigToken(envTOKEN, flagToken)
    /\ mainpc = "config"
    /\ sigpc = "none"
    /\ interrupts = 0
    /\ exit = "none"
    /\ ctl = "Stopped"
    /\ stopCalls = 0
    /\ patching = [w \in Workloads |-> 0]
    /\ patchCalls = [w \in Workloads |-> 0]
    /\ coalesced = {}
    /\ served = 0
    /\ hpc = [h \in Handlers |-> "idle"]
    /\ req = [h \in Handlers |-> NoRequest]
    /\ bodyRead = [h \in Handlers |-> FALSE]
    /\ events = [h \in Handlers |-> <<>>]
    /\ idx = [h \in Handlers |-> 0]
    /\ dispatched = [h \in Handlers |-> <<>>]
    /\ failed = [h \in Handlers |-> {}]
    /\ resp = [h \in Handlers |-> NoResponse]

\* The lifecycle specification: the token "a" comes from the environment;
\* requests carry no token, the right one or one in another case.
Init == InitWith({<<"a">>}, {<<>>})

\* The process has not exited.
Alive == exit = "none"

\* --------------------------------------------------------------------- main
\* apiutils.Config().
MainConfig ==
    /\ Alive /\ mainpc = "config"
    /\ mainpc' = "gosig"
    /\ UNCHANGED <<sigpc, interrupts, exit, cfgVars, ctlVars, reqVars>>

\* go sig().
MainGoSig ==
    /\ Alive /\ mainpc = "gosig"
    /\ mainpc' = "startrollout"
    /\ sigpc' = "spawned"
    /\ UNCHANGED <<interrupts, exit, cfgVars, ctlVars, reqVars>>

\* apiutils.StartRollout() is called: the controller starts.
MainStartRollout ==
    /\ Alive /\ mainpc = "startrollout"
    /\ mainpc' = "starting"
    /\ ctl' = StartRolloutCalled(ctl)
    /\ UNCHANGED <<sigpc, interrupts, exit, cfgVars, stopCalls, patching,
                   patchCalls, coalesced, reqVars>>

\* apiutils.StartRollout() returns: the first snapshot is built.
MainStartRolloutReturn ==
    /\ Alive /\ mainpc = "starting"
    /\ mainpc' = "listen"
    /\ ctl' = StartRolloutReturned(ctl)
    /\ UNCHANGED <<sigpc, interrupts, exit, cfgVars, stopCalls, patching,
                   patchCalls, coalesced, reqVars>>

\* apiutils.StartRollout() cannot reach the cluster: fatal to the process.
MainStartRolloutFatal ==
    /\ Alive /\ mainpc = "starting"
    /\ mainpc' = "exited"
    /\ exit' = "1"
    /\ UNCHANGED <<sigpc, interrupts, cfgVars, ctlVars, reqVars>>

\* The handlers are registered and ListenAndServe accepts connections.
MainListen ==
    /\ Alive /\ mainpc = "listen"
    /\ mainpc' = "serving"
    /\ UNCHANGED <<sigpc, interrupts, exit, cfgVars, ctlVars, reqVars>>

\* ListenAndServe returns an error: log.Fatal.
MainListenFatal ==
    /\ Alive /\ mainpc = "listen"
    /\ mainpc' = "exited"
    /\ exit' = "1"
    /\ UNCHANGED <<sigpc, interrupts, cfgVars, ctlVars, reqVars>>

\* ---------------------------------------------------------------------- sig
\* The channel is made and signal.Notify registers it for os.Interrupt.
SigNotify ==
    /\ Alive /\ sigpc = "spawned"
    /\ sigpc' = "notified"
    /\ UNCHANGED <<mainpc, interrupts, exit, cfgVars, ctlVars, reqVars>>

\* The goroutine blocks in the receive from the channel.
SigBlock ==
    /\ Alive /\ sigpc = "notified"
    /\ sigpc' = "waiting"
    /\ UNCHANGED <<mainpc, interrupts, exit, cfgVars, ctlVars, reqVars>>

\* The operating system raises an interrupt.  Before signal.Notify the Go
\* runtime's default applies and the process dies of the signal.  After it
\* the signal is sent to the channel without blocking: the channel has no
\* buffer, so the signal is received only by a goroutine blocked in the
\* receive and is dropped otherwise.
Interrupt ==
    /\ Alive /\ interrupts < MaxInterrupts
    /\ interrupts' = interrupts + 1
    /\ \/ /\ sigpc \in {"none", "spawned"}
          /\ exit' = "SIGINT"
          /\ UNCHANGED sigpc
       \/ /\ sigpc = "waiting"
          /\ sigpc' = "received"
          /\ UNCHANGED exit
       \/ /\ sigpc \in {"notified", "received", "stopping", "stopped"}
          /\ UNCHANGED <<sigpc, exit>>
    /\ UNCHANGED <<mainpc, cfgVars, ctlVars, reqVars>>

\* apiutils.StopRollout() is called.
SigStopRollout ==
    /\ Alive /\ sigpc = "received"
    /\ sigpc' = "stopping"
    /\ stopCalls' = stopCalls + 1
    /\ ctl' = StopRolloutCalled(ctl)
    /\ UNCHANGED <<mainpc, interrupts, exit, cfgVars, patching, patchCalls,
                   coalesced, reqVars>>

\* apiutils.StopRollout() returns, in flight triggers or not.
SigStopRolloutReturn ==
    /\ Alive /\ sigpc = "stopping"
    /\ sigpc' = "stopped"
    /\ ctl' = StopRolloutReturned(ctl)
    /\ UNCHANGED <<mainpc, interrupts, exit, cfgVars, stopCalls, patching,
                   patchCalls, coalesced, reqVars>>

\* log.Println("Got signal", s); os.Exit(0).
SigExit ==
    /\ Alive /\ sigpc = "stopped"
    /\ sigpc' = "exited"
    /\ exit' = "0"
    /\ UNCHANGED <<mainpc, interrupts, cfgVars, ctlVars, reqVars>>

\* ----------------------------------------------------------------- handlers
Routes == {"/healthz", "/event"}

\* The server hands a request to a handler goroutine: the goroutines are
\* alike, and the free one of the lowest number stands for any of them.  A
\* request to /healthz carries no body.
Accept(h, Toks, Regs, Bods) ==
    /\ Alive /\ mainpc = "serving"
    /\ served < MaxRequests
    /\ hpc[h] \in {"idle", "done"}
    /\ \A g \in Handlers : g < h => hpc[g] \notin {"idle", "done"}
    /\ \E route \in Routes, token \in HeadersOver(Toks), registry \in Regs,
          body \in Bods :
          /\ route = "/healthz" => body = Malformed /\ registry = ""
          /\ req' = [req EXCEPT ![h] = [route |-> route, token |-> token,
                                        registry |-> registry, body |-> body]]
    /\ served' = served + 1
    /\ hpc' = [hpc EXCEPT ![h] = "accepted"]
    /\ bodyRead' = [bodyRead EXCEPT ![h] = FALSE]
    /\ events' = [events EXCEPT ![h] = <<>>]
    /\ idx' = [idx EXCEPT ![h] = 0]
    /\ dispatched' = [dispatched EXCEPT ![h] = <<>>]
    /\ failed' = [failed EXCEPT ![h] = {}]
    /\ resp' = [resp EXCEPT ![h] = NoResponse]
    /\ UNCHANGED <<procVars, cfgVars, ctlVars>>

\* Health behind the token check.
HealthResponseAuth(r) ==
    IF checkToken(r) # Nil THEN [status |-> 401, body |-> BadTokenError]
    ELSE [status |-> 200, body |-> "ok\n"]

\* What Health writes: "ok\n", and with it the implicit status 200.
HealthResponse(r) == [status |-> 200, body |-> "ok\n"]

\* Health.
Health(h) ==
    /\ Alive /\ hpc[h] = "accepted" /\ req[h].route = "/healthz"
    /\ resp' = [resp EXCEPT ![h] = HealthResponse(req[h])]
    /\ hpc' = [hpc EXCEPT ![h] = "done"]
    /\ UNCHANGED <<procVars, cfgVars, ctlVars, served, req, bodyRead, events,
                   idx, dispatched, failed>>

\* Action without the return that ends its error branch.
AuthFailedFallThrough == "authed"

\* Where Action is after its error branch: it has returned.
AuthFailed == "done"

\* Action, its token check: on an error the 401 and the error text are
\* written and Action returns.
ActionAuth(h) ==
    /\ Alive /\ hpc[h] = "accepted" /\ req[h].route = "/event"
    /\ LET err == checkToken(req[h])
       IN  IF err # Nil
           THEN /\ resp' = [resp EXCEPT ![h] = [status |-> 401, body |-> err]]
                /\ hpc' = [hpc EXCEPT ![h] = AuthFailed]
           ELSE /\ hpc' = [hpc EXCEPT ![h] = "authed"]
                /\ UNCHANGED resp
    /\ UNCHANGED <<procVars, cfgVars, ctlVars, served, req, bodyRead, events,
                   idx, dispatched, failed>>

\* Action reads the body and the registry override and decodes the events.
ActionDecode(h) ==
    /\ Alive /\ hpc[h] = "authed"
    /\ bodyRead' = [bodyRead EXCEPT ![h] = TRUE]
    /\ events' = [events EXCEPT ![h] = GetEvents(req[h].body, req[h].registry)]
    /\ idx' = [idx EXCEPT ![h] = 1]
    /\ hpc' = [hpc EXCEPT ![h] = "loop"]
    /\ UNCHANGED <<procVars, cfgVars, ctlVars, served, req, dispatched, failed,
                   resp>>

\* trigger without the in-flight check.
TriggerStartsAlways(w) == ctl = "Running"

\* Whether trigger(w) issues a patch call: the controller runs and no
\* trigger for w is in flight.
TriggerStarts(w) == ctl = "Running" /\ patching[w] = 0

\* The range loop left at the first event that fails.
LoopAfterBreak(h, outcome) ==
    IF outcome = "fail" THEN Len(events[h]) + 1 ELSE idx[h] + 1

\* The range loop after one call of ImpactedDeployments, whose result is
\* not looked at: the next event.
LoopAfter(h, outcome) == idx[h] + 1

\* One iteration of Action's loop: apiutils.ImpactedDeployments(e).  The
\* call fails, or resolves the impacted workloads and triggers each.
ActionDispatch(h) ==
    /\ Alive /\ hpc[h] = "loop" /\ idx[h] <= Len(events[h])
    /\ \E outcome \in {"ok", "fail"} :
          LET e == events[h][idx[h]]
              hit == IF outcome = "ok" THEN Resolve(e) ELSE {}
              started == {w \in hit : TriggerStarts(w)}
              joined == {w \in hit : ctl = "Running" /\ ~TriggerStarts(w)}
          IN  /\ dispatched' = [dispatched EXCEPT ![h] = Append(@, e)]
              /\ failed' = [failed EXCEPT ![h] =
                               IF outcome = "fail" THEN @ \cup {idx[h]} ELSE @]
              /\ idx' = [idx EXCEPT ![h] = LoopAfter(h, outcome)]
              /\ patching' = [w \in Workloads |->
                                 IF w \in started THEN patching[w] + 1
                                 ELSE patching[w]]
              /\ patchCalls' = [w \in Workloads |->
                                   IF w \in started THEN patchCalls[w] + 1
                                   ELSE patchCalls[w]]
              /\ coalesced' = coalesced \cup joined
    /\ UNCHANGED <<procVars, cfgVars, ctl, stopCalls, served, hpc, req,
                   bodyRead, events, resp>>

\* The loop is over and Action returns: the server writes the status 200
\* unless a status was written before.
ActionReturn(h) ==
    /\ Alive /\ hpc[h] = "loop" /\ idx[h] > Len(events[h])
    /\ resp' = [resp EXCEPT ![h] =
                   IF @.status = 0 THEN [status |-> 200, body |-> ""] ELSE @]
    /\ hpc' = [hpc EXCEPT ![h] = "done"]
    /\ UNCHANGED <<procVars, cfgVars, ctlVars, served, req, bodyRead, events,
                   idx, dispatched, failed>>

\* The cluster answers a patch call.
PatchReturn(w) ==
    /\ Alive /\ patching[w] > 0
    /\ patching' = [patching EXCEPT ![w] = @ - 1]
    /\ UNCHANGED <<procVars, cfgVars, ctl, stopCalls, patchCalls, coalesced,
                   reqVars>>

\* ------------------------------------------------------------ specifications
\* What the requests of the lifecycle specification carry.
SpecTokens == {<<"a">>, <<"A">>}
SpecBodies == BodiesUpTo(MaxEvents)

Next ==
    \/ MainConfig
    \/ MainGoSig
    \/ MainStartRollout
    \/ MainStartRolloutReturn
    \/ MainStartRolloutFatal
    \/ MainListen
    \/ MainListenFatal
    \/ SigNotify
    \/ SigBlock
    \/ Interrupt
    \/ SigStopRollout
    \/ SigStopRolloutReturn
    \/ SigExit
    \/ \E h \in Handlers : Accept(h, SpecTokens, {""}, SpecBodies)
    \/ \E h \in Handlers : Health(h)
    \/ \E h \in Handlers : ActionAuth(h)
    \/ \E h \in Handlers : ActionDecode(h)
    \/ \E h \in Handlers : ActionDispatch(h)
    \/ \E h \in Handlers : ActionReturn(h)
    \/ \E w \in Workloads : PatchReturn(w)

Spec == Init /\ [][Next]_vars

\* The authentication specification: the server once it serves, with one
\* request left to accept, under any configuration of the token by the
\* environment and the flag; the request has any token header, a registry
\* override or none, a malformed or a decodable body.
AuthStrs == StrsUpTo(MaxLen)
AuthBodies ==
    {Malformed,
     Envelope(<<[action |-> "push", repository |-> "app", tag |-> "v2"]>>)}

InitAuth ==
    /\ envTOKEN \in AuthStrs
    /\ flagToken \in HeadersOver(AuthStrs)
    /\ TOKEN = ConfigToken(envTOKEN, flagToken)
    /\ mainpc = "serving"
    /\ sigpc = "waiting"
    /\ interrupts = 0
    /\ exit = "none"
    /\ ctl = "Running"
    /\ stopCalls = 0
    /\ patching = [w \in Workloads |-> 0]
    /\ patchCalls = [w \in Workloads |-> 0]
    /\ coalesced = {}
    /\ served = MaxRequests - 1
    /\ hpc = [h \in Handlers |-> "idle"]
    /\ req = [h \in Handlers |-> NoRequest]
    /\ bodyRead = [h \in Handlers |-> FALSE]
    /\ events = [h \in Handlers |-> <<>>]
    /\ idx = [h \in Handlers |-> 0]
    /\ dispatched = [h \in Handlers |-> <<>>]
    /\ failed = [h \in Handlers |-> {}]
    /\ resp = [h \in Handlers |-> NoResponse]

NextAuth ==
    \/ Accept(1, AuthStrs, {"", "reg"}, AuthBodies)
    \/ Health(1)
    \/ ActionAuth(1)

SpecAuth == InitAuth /\ [][NextAuth]_vars

\* ------------------------------------------------------------------- claims
\* The handler has run checkToken on its /event request.
Checked(h) == req[h].route = "/event" /\ hpc[h] \notin {"idle", "accepted"}

\* checkToken returned the BadTokenError: Action answered 401.
Refused(h) == resp[h].status = 401

\* C1: with a token configured, a request whose X-Argoos-Token header is
\* absent, empty after trimming or different from the token after trimming
\* is refused, and a request that carries the configured token passes,
\* however the token was configured.
C1_TokenChecked ==
    \A h \in Handlers :
        (TOKEN # <<>> /\ Checked(h)) =>
            LET value == HeaderGet(req[h].token)
            IN  /\ (req[h].token = <<>> \/ TrimSpace(value) = <<>>
                        \/ TrimSpace(value) # TOKEN) => Refused(h)
                /\ value = TOKEN => ~Refused(h)

\* C2: with no token configured checkToken lets every request pass: no
\* header, an empty or blank one, any value.
C2_NoTokenNoCheck ==
    \A h \in Handlers : (TOKEN = <<>> /\ Checked(h)) => ~Refused(h)

\* A request with a blank token header has passed while no token is set.
C2_Witness ==
    \E h \in Handlers :
        /\ TOKEN = <<>> /\ Checked(h) /\ hpc[h] = "authed"
        /\ req[h].token # <<>> /\ HeaderGet(req[h].token) # <<>>
        /\ TrimSpace(HeaderGet(req[h].token)) = <<>>

\* C3: when checkToken fails Action answers 401 and does nothing else: the
\* body is not read, no event is decoded, ImpactedDeployments is not called
\* and the controller is as it was.
C3_RefusedUntouched ==
    /\ [](\A h \in Handlers :
            Refused(h) =>
                /\ hpc[h] = "done" /\ resp[h].body = BadTokenError
                /\ ~bodyRead[h] /\ events[h] = <<>> /\ dispatched[h] = <<>>)
    /\ [][\A h \in Handlers :
            (hpc[h] = "accepted" /\ req[h].route = "/event"
                /\ checkToken(req[h]) # Nil /\ hpc'[h] # hpc[h])
            => (Refused(h)' /\ UNCHANGED <<ctlVars, cfgVars>>)]_vars

\* A request with a token in the wrong case was refused while a patch call
\* of an earlier request was in flight.
C3_Witness ==
    \E h \in Handlers :
        /\ Refused(h) /\ hpc[h] = "done" /\ req[h].token = <<<<"A">>>>
        /\ req[h].body.envelope /\ Len(req[h].body.records) > 0
        /\ patching["ns/app"] = 1

\* C4: an authenticated /event request with a malformed body is answered
\* 4xx and triggers nothing; 200 is for a body that was parsed.
C4_MalformedIs4xx ==
    \A h \in Handlers :
        (Checked(h) /\ ~Refused(h) /\ hpc[h] = "done"
            /\ ~req[h].body.envelope)
        => (resp[h].status \in 400..499 /\ dispatched[h] = <<>>)

\* C5: a trigger for a workload whose patch call has not returned issues
\* no second patch call: at most one patch call per workload is in flight.
C5_OnePatchInFlight == \A w \in Workloads : patching[w] <= 1

\* A trigger met the one in flight for the same workload, and the cluster
\* has seen one patch call.
C5_Witness ==
    /\ "ns/app" \in coalesced
    /\ patching["ns/app"] = 1 /\ patchCalls["ns/app"] = 1

\* C6: once StopRollout has been called no call of ImpactedDeployments
\* starts.
C6_NoDispatchAfterStop ==
    [][stopCalls > 0 =>
          \A h \in Handlers : Len(dispatched'[h]) <= Len(dispatched[h])]_vars

\* C7: a process that ends on an interrupt has called StopRollout once, has
\* seen it return and exits with code 0.
C7_StopThenExit ==
    exit \in {"0", "SIGINT"} =>
        (exit = "0" /\ stopCalls = 1 /\ sigpc = "exited")

\* C8: Action gives every decoded event to ImpactedDeployments, once and in
\* order, whatever fails on the way, and a failure does not end the process.
C8_BatchIndependent ==
    /\ [](\A h \in Handlers :
            /\ Len(dispatched[h]) <= Len(events[h])
            /\ dispatched[h] = SubSeq(events[h], 1, Len(dispatched[h]))
            /\ hpc[h] = "loop" => idx[h] = Len(dispatched[h]) + 1
            /\ (Checked(h) /\ ~Refused(h) /\ hpc[h] = "done")
                => (dispatched[h] = events[h] /\ resp[h].status = 200))
    /\ [][\A h \in Handlers :
            failed'[h] # failed[h] => UNCHANGED <<exit, mainpc>>]_vars

\* A batch of two events whose first failed was dispatched whole.
C8_Witness ==
    \E h \in Handlers :
        /\ hpc[h] = "done" /\ resp[h].status = 200
        /\ Len(events[h]) = 2 /\ 1 \in failed[h]
        /\ dispatched[h] = events[h]

\* C9: /healthz answers 200 and ok with or without the token and touches
\* neither the controller nor the token nor any event.
C9_HealthPure ==
    /\ [](\A h \in Handlers :
            (req[h].route = "/healthz" /\ hpc[h] = "done")
            => (resp[h] = [status |-> 200, body |-> "ok\n"]
                /\ ~bodyRead[h] /\ events[h] = <<>> /\ dispatched[h] = <<>>))
    /\ [][\A h \in Handlers :
            (req[h].route = "/healthz" /\ hpc[h] = "accepted"
                /\ hpc'[h] # hpc[h])
            => (hpc'[h] = "done"
                /\ UNCHANGED <<ctlVars, cfgVars, procVars>>)]_vars

\* /healthz has answered requests without a token and with a wrong one
\* while a token is configured.
C9_Witness ==
    /\ TOKEN # <<>>
    /\ \A h \in Handlers : req[h].route = "/healthz" /\ hpc[h] = "done"
    /\ \E h \in Handlers : req[h].token = <<>>
    /\ \E h \in Handlers : req[h].token = <<<<"A">>>>

\* C10: StopRollout is called only on a running controller, and the server
\* accepts requests only when StartRollout has returned.
C10_StopOnlyRunning ==
    [][/\ stopCalls' > stopCalls =>
             (ctl = "Running" /\ mainpc \in {"listen", "serving"})
       /\ served' > served => mainpc = "serving"]_vars

=============================================================================
